---- MODULE Spec2Model ----
(***************************************************************************)
(* A model of src/main.py: TelegramManager, a JSON-backed registry of      *)
(* accounts and targets with a fixed-interval broadcast loop.              *)
(*                                                                         *)
(* Python strings are modelled as sequences of one-character strings, so   *)
(* that the string conversions of the program (str.replace, str.endswith,  *)
(* the sanitising join, str.split) are computed and not assumed.           *)
(***************************************************************************)
EXTENDS Naturals, Sequences, FiniteSets

(***************************************************************************)
(* Bounds of the model.                                                    *)
(***************************************************************************)
\* interactive add_new_account calls in one run
MaxAdds == 1
\* length of the targets list (add_target is refused by the model beyond it)
MaxTargets == 2

(***************************************************************************)
(* Strings.                                                                *)
(***************************************************************************)
S_a == <<"a">>
S_b == <<"b">>
S_m == <<"m">>
temp_session == <<"t", "e", "m", "p", "_", "s", "e", "s", "s", "i", "o", "n">>
DotSession == <<".", "s", "e", "s", "s", "i", "o", "n">>
TMe == <<"t", ".", "m", "e", "/">>
\* Python's None, where a string is expected
None == <<"None">>

\* str.isalnum() of one character, over the alphabet of the model
isalnum(c) == c \in {"a", "b", "e", "i", "m", "n", "o", "p", "s", "t", "1"}

\* s[i:] with a 1-based i
Drop(s, i) == SubSeq(s, i, Len(s))

\* s.startswith(p)
startswith(s, p) == Len(s) >= Len(p) /\ SubSeq(s, 1, Len(p)) = p

\* s.endswith(p)
endswith(s, p) == Len(s) >= Len(p) /\ SubSeq(s, Len(s) - Len(p) + 1, Len(s)) = p

\* p in s
contains(s, p) == \E i \in 1..(Len(s) - Len(p) + 1) : SubSeq(s, i, i + Len(p) - 1) = p

\* s.replace(old, ''): every occurrence of old, found left to right, is removed
RECURSIVE replace(_, _)
replace(s, old) ==
    IF s = <<>> THEN <<>>
    ELSE IF startswith(s, old) THEN replace(Drop(s, Len(old) + 1), old)
    ELSE <<Head(s)>> \o replace(Tail(s), old)

\* s.split(sep)[-1]: the text after the last occurrence of sep (all of s if none)
RECURSIVE split_last(_, _)
split_last(s, sep) ==
    IF s = <<>> THEN <<>>
    ELSE IF startswith(s, sep) /\ ~contains(Drop(s, Len(sep) + 1), sep)
         THEN Drop(s, Len(sep) + 1)
    ELSE IF startswith(s, sep) THEN split_last(Drop(s, Len(sep) + 1), sep)
    ELSE IF contains(s, sep) THEN split_last(Tail(s), sep)
    ELSE s

\* "".join(c for c in session_name if c.isalnum() or c in ('-', '_'))
keep_char(c) == isalnum(c) \/ c \in {"-", "_"}
sanitize(s) == SelectSeq(s, keep_char)

\* me.username or me.first_name: None and '' are both falsy
username_or_first_name(me) ==
    IF me.username = None \/ me.username = <<>> THEN me.first_name ELSE me.username

(***************************************************************************)
(* The world outside the program: the config file and the session files.   *)
(***************************************************************************)
\* "<stem>.session"
session_file(stem) == stem \o DotSession
MainPy == <<"m", "a", "i", "n", ".", "p", "y">>

\* what the directory of main.py may hold beside main.py itself
CwdFileSets == SUBSET {session_file(S_a), session_file(temp_session)}
\* what its "sessions" subdirectory may hold
DirFileSets == SUBSET {session_file(S_a), session_file(S_b)}

Account(name) == [session_name |-> name]
Target(r, m) == [recipient |-> r, message |-> m]

\* the documents sessions.json may hold when the program starts
InitAccountLists ==
    { <<>>, <<Account(S_a), Account(S_b)>>, <<Account(temp_session), Account(S_a)>> }
InitTargetLists == { <<>>, <<Target(S_a, S_m)>> }
EmptyDocument == [accounts |-> <<>>, targets |-> <<>>]
InitFiles ==
    { [kind |-> "absent", doc |-> EmptyDocument], [kind |-> "empty", doc |-> EmptyDocument],
      [kind |-> "unreadable", doc |-> EmptyDocument] }
    \cup { [kind |-> "json", doc |-> [accounts |-> a, targets |-> t]] :
             a \in InitAccountLists, t \in InitTargetLists }

\* what the operator types at the recipient prompt, and at the message prompt
RawTargets == { <<"@">> \o S_a, <<"h", "/", "/">> \o TMe \o S_b }
Messages == { S_m }

\* get_me() of the account the operator logs in with
Identities ==
    { [username |-> S_a, first_name |-> S_b],
      [username |-> None, first_name |-> <<"a", "!">>],
      [username |-> temp_session, first_name |-> S_b] }

VARIABLES
    sessions_file,    \* sessions.json on disk: [kind, doc]
    cwd_files,        \* the files beside main.py (main.py apart)
    dir_files,        \* the files of the sessions subdirectory
    sessions_data,    \* self.sessions_data
    clients,          \* self.clients
    pc,               \* where run() is
    nclients,         \* Client objects constructed so far
    running,          \* the clients started and not stopped
    idx,              \* the list iterator of the loop run() is in
    tix,              \* the iterator of the inner, targets loop
    calls,            \* the send calls issued in the current cycle, in order
    failed,           \* how many calls of the current cycle raised
    adds,             \* add_new_account calls answered 'y' at the prompt
    ret,              \* what the last add_new_account returned: <<client>>, or <<>> for None
    stop_called,      \* the clients the cleanup pass called stop() on
    loop_accounts,    \* the accounts list as the loading loop found it
    started,          \* the session names start() was called for in the loading loop
    removed,          \* the session names the loading loop removed
    session_files,    \* what detect_existing_sessions returned
    max_unsaved,      \* most in-memory changes awaiting a save at one time, in the
                      \* last operation that changed the document
    saves,            \* save_sessions calls of the last operation that scanned for
                      \* sessions or changed the document
    typed             \* what the operator typed at the last recipient prompt

vars == << sessions_file, cwd_files, dir_files, sessions_data, clients, pc, nclients,
           running, idx, tix, calls, failed, adds, ret, stop_called,
           loop_accounts, started, removed, session_files, max_unsaved, saves, typed >>

fs_vars == << cwd_files, dir_files >>
cycle_vars == << tix, calls, failed >>
load_vars == << loop_accounts, started, removed >>

session_names(accounts) == { accounts[i].session_name : i \in 1..Len(accounts) }

(***************************************************************************)
(* ConfigStore.                                                            *)
(***************************************************************************)
\* load_sessions with no except clause: the missing file raises too
load_raises_always(file) == file.kind \in {"absent", "empty", "unreadable"}

\* load_sessions with json.load's error caught too: only open() can raise
load_raises_open_only(file) == file.kind = "unreadable"

\* load_sessions raises for a file open() cannot read (other than a missing
\* one) and for a file json.load cannot parse, such as one of no bytes
load_raises(file) == file.kind \in {"empty", "unreadable"}

\* load_sessions
load_sessions(file) == IF file.kind = "absent" THEN EmptyDocument ELSE file.doc

\* a save that writes the accounts and leaves the targets out
save_accounts_only(doc) == [kind |-> "json", doc |-> [doc EXCEPT !.targets = <<>>]]

\* save_sessions: the whole document replaces the file
save_sessions(doc) == [kind |-> "json", doc |-> doc]

(***************************************************************************)
(* __init__, then asyncio.run(manager.run()).                              *)
(***************************************************************************)
Init ==
    /\ sessions_file \in InitFiles
    /\ cwd_files \in CwdFileSets
    /\ dir_files \in DirFileSets
    /\ sessions_data = load_sessions(sessions_file)
    /\ clients = <<>>
    /\ pc = IF load_raises(sessions_file) THEN "load_error" ELSE "detect"
    /\ nclients = 0
    /\ running = {}
    /\ idx = 1
    /\ tix = 1
    /\ calls = <<>>
    /\ failed = 0
    /\ adds = 0
    /\ ret = <<>>
    /\ stop_called = {}
    /\ loop_accounts = <<>>
    /\ started = {}
    /\ removed = {}
    /\ session_files = <<>>
    /\ max_unsaved = 0
    /\ saves = 0
    /\ typed = <<>>

(***************************************************************************)
(* SessionDiscovery.                                                       *)
(***************************************************************************)
Perms(S) ==
    { f \in [1..Cardinality(S) -> S] : \A i, j \in 1..Cardinality(S) : f[i] = f[j] => i = j }

\* the files in the order the two os.walk calls yield them: main.py's directory
\* (whose walk descends into sessions), then sessions again if it exists
WalkOrders ==
    { top \o sub \o again :
        top \in Perms(cwd_files \cup {MainPy}), sub \in Perms(dir_files),
        again \in Perms(dir_files) }

\* scan without the test of line 53: every session file found is appended
RECURSIVE scan_untested(_, _, _)
scan_untested(files, accounts, found) ==
    IF files = <<>> THEN [accounts |-> accounts, session_files |-> found]
    ELSE LET file == Head(files)
             session_name == replace(file, DotSession)
         IN  IF ~endswith(file, DotSession) \/ session_name = temp_session
             THEN scan_untested(Tail(files), accounts, found)
             ELSE scan_untested(Tail(files), Append(accounts, Account(session_name)),
                                Append(found, session_name))

\* scan with the test of line 53 made against the sessions found in this scan
\* and not against the accounts list
RECURSIVE scan_fresh_only(_, _, _)
scan_fresh_only(files, accounts, found) ==
    IF files = <<>> THEN [accounts |-> accounts, session_files |-> found]
    ELSE LET file == Head(files)
             session_name == replace(file, DotSession)
         IN  IF ~endswith(file, DotSession) \/ session_name = temp_session
                \/ \E i \in 1..Len(found) : found[i] = session_name
             THEN scan_fresh_only(Tail(files), accounts, found)
             ELSE scan_fresh_only(Tail(files), Append(accounts, Account(session_name)),
                                  Append(found, session_name))

\* the body of the three nested loops, over the files in walk order
RECURSIVE scan(_, _, _)
scan(files, accounts, found) ==
    IF files = <<>> THEN [accounts |-> accounts, session_files |-> found]
    ELSE LET file == Head(files)
             session_name == replace(file, DotSession)
         IN  IF ~endswith(file, DotSession) THEN scan(Tail(files), accounts, found)
             ELSE IF session_name = temp_session THEN scan(Tail(files), accounts, found)
             ELSE IF session_name \notin session_names(accounts)
                  THEN scan(Tail(files), Append(accounts, Account(session_name)),
                            Append(found, session_name))
             ELSE scan(Tail(files), accounts, found)

detect_existing_sessions ==
    /\ pc = "detect"
    /\ \E files \in WalkOrders :
         LET r == scan(files, sessions_data.accounts, <<>>)
             doc == [sessions_data EXCEPT !.accounts = r.accounts]
         IN  /\ sessions_data' = doc
             /\ session_files' = r.session_files
             /\ sessions_file' = IF r.session_files # <<>> THEN save_sessions(doc)
                                 ELSE sessions_file
             /\ saves' = IF r.session_files # <<>> THEN 1 ELSE 0
             /\ max_unsaved' = Len(r.session_files)
             /\ loop_accounts' = r.accounts
    /\ pc' = "load"
    /\ idx' = 1
    /\ UNCHANGED << fs_vars, clients, nclients, running, cycle_vars, adds, ret,
                    stop_called, started, removed, typed >>

\* detect_existing_sessions called once more, with the files as they were
detect_again ==
    /\ pc = "load"
    /\ \E files \in WalkOrders :
         LET r == scan(files, sessions_data.accounts, <<>>)
             doc == [sessions_data EXCEPT !.accounts = r.accounts]
         IN  /\ sessions_data' = doc
             /\ session_files' = r.session_files
             /\ sessions_file' = IF r.session_files # <<>> THEN save_sessions(doc)
                                 ELSE sessions_file
             /\ saves' = IF r.session_files # <<>> THEN 1 ELSE 0
             /\ max_unsaved' = Len(r.session_files)
    /\ pc' = "rescanned"
    /\ UNCHANGED << fs_vars, clients, nclients, running, idx, cycle_vars, adds, ret,
                    stop_called, load_vars, typed >>

\* the session scan, run twice
NextScan ==
    \/ detect_existing_sessions
    \/ detect_again

SpecScan == Init /\ [][NextScan]_vars

(***************************************************************************)
(* AccountRegistry: the loading loop of setup.                             *)
(***************************************************************************)
Client(session_name, workdir, serial) ==
    [session_name |-> session_name, workdir |-> workdir, serial |-> serial]

\* list.remove(x): the first element equal to x goes
RECURSIVE remove(_, _)
remove(list, x) ==
    IF list = <<>> THEN <<>>
    ELSE IF Head(list) = x THEN Tail(list)
    ELSE <<Head(list)>> \o remove(Tail(list), x)

\* where the session file of an account is looked for
session_path(session_name) ==
    IF session_file(session_name) \in dir_files THEN "sessions" ELSE "."

\* what the for statement does after one pass of its body: the list iterator
\* moves on by one, whatever the body did to the list
next_index(i) == i + 1

\* after the loading and the account prompts: the first target, or the prompt
targets_step(doc) == IF doc.targets = <<>> THEN "first_target" ELSE "ask_target"

\* one pass of the body of "for account in self.sessions_data['accounts']"
load_account ==
    /\ pc = "load"
    /\ idx <= Len(sessions_data.accounts)
    /\ LET account == sessions_data.accounts[idx]
           client == Client(account.session_name, session_path(account.session_name),
                            nclients + 1)
           doc == [sessions_data EXCEPT !.accounts = remove(@, account)]
       IN  /\ nclients' = nclients + 1
           /\ idx' = next_index(idx)
           /\ IF account.session_name = temp_session
              THEN UNCHANGED << sessions_data, sessions_file, clients, running, started,
                                removed, max_unsaved, saves >>
              ELSE /\ started' = started \cup {account.session_name}
                   /\ \/ \* client.start() returns
                         /\ clients' = Append(clients, client)
                         /\ running' = running \cup {client}
                         /\ UNCHANGED << sessions_data, sessions_file, removed, max_unsaved,
                                         saves >>
                      \/ \* client.start() raises
                         /\ sessions_data' = doc
                         /\ sessions_file' = save_sessions(doc)
                         /\ saves' = 1
                         /\ removed' = removed \cup {account.session_name}
                         /\ max_unsaved' = 1
                         /\ UNCHANGED << clients, running >>
    /\ UNCHANGED << fs_vars, pc, cycle_vars, adds, ret, stop_called, loop_accounts,
                    session_files, typed >>

\* the loading loop followed by the prompt whatever it loaded
load_done_always_asks ==
    /\ pc = "load"
    /\ idx > Len(sessions_data.accounts)
    /\ pc' = "ask_account"
    /\ UNCHANGED << sessions_file, saves, typed, fs_vars, sessions_data, clients, nclients,
                    running, idx, cycle_vars, adds, ret, stop_called, load_vars,
                    session_files, max_unsaved >>

\* the iterator is exhausted
load_done ==
    /\ pc = "load"
    /\ idx > Len(sessions_data.accounts)
    /\ pc' = IF clients = <<>> THEN "add_first" ELSE "ask_account"
    /\ UNCHANGED << sessions_file, saves, typed, fs_vars, sessions_data, clients, nclients, running,
                    idx, cycle_vars, adds, ret, stop_called, load_vars, session_files,
                    max_unsaved >>

(***************************************************************************)
(* AccountRegistry: the interactive add.                                   *)
(***************************************************************************)
\* the places of add_new_account's try block that call the client library
AddSteps == { "start_temp", "get_me", "stop_temp", "start", "none" }

\* input("Do you want to add another account? (y/N): ")
ask_account ==
    /\ pc = "ask_account"
    /\ \/ /\ adds < MaxAdds
          /\ adds' = adds + 1
          /\ pc' = "add_account"
       \/ /\ pc' = targets_step(sessions_data)
          /\ UNCHANGED adds
    /\ UNCHANGED << sessions_file, saves, typed, fs_vars, sessions_data, clients, nclients, running,
                    idx, cycle_vars, ret, stop_called, load_vars, session_files,
                    max_unsaved >>

\* the add with lines 98-104 before the start of line 93: the account is saved
\* and the client listed before the permanent client has started
add_new_account_saves_first ==
    /\ pc \in {"add_first", "add_account"}
    /\ \E me \in Identities, raises \in AddSteps :
         LET temp == Client(temp_session, ".", nclients + 1)
             session_name == sanitize(username_or_first_name(me))
             client == Client(session_name, ".", nclients + 2)
             tracked == session_name \in session_names(sessions_data.accounts)
             doc == IF tracked THEN sessions_data
                    ELSE [sessions_data EXCEPT !.accounts = Append(@, Account(session_name))]
         IN  /\ nclients' = IF raises \in {"start", "none"} THEN nclients + 2
                            ELSE nclients + 1
             /\ running' = CASE raises = "start_temp" -> running
                             [] raises \in {"get_me", "stop_temp"} -> running \cup {temp}
                             [] raises = "start" -> running
                             [] OTHER -> running \cup {client}
             /\ IF raises \in {"start", "none"}
                THEN /\ sessions_data' = doc
                     /\ sessions_file' = IF tracked THEN sessions_file
                                         ELSE save_sessions(doc)
                     /\ saves' = IF tracked THEN saves ELSE 1
                     /\ max_unsaved' = IF tracked THEN max_unsaved ELSE 1
                     /\ clients' = Append(clients, client)
                     /\ ret' = <<client>>
                ELSE /\ ret' = <<>>
                     /\ UNCHANGED << sessions_data, sessions_file, clients, max_unsaved,
                                     saves >>
    /\ pc' = IF pc = "add_first" THEN targets_step(sessions_data) ELSE "ask_account"
    /\ UNCHANGED << fs_vars, idx, cycle_vars, adds, stop_called, load_vars,
                    session_files, typed >>

\* add_new_account, for the identity me and the step (if any) that raises
add_new_account ==
    /\ pc \in {"add_first", "add_account"}
    /\ \E me \in Identities, raises \in AddSteps :
         LET temp == Client(temp_session, ".", nclients + 1)
             session_name == sanitize(username_or_first_name(me))
             client == Client(session_name, ".", nclients + 2)
             tracked == session_name \in session_names(sessions_data.accounts)
             doc == IF tracked THEN sessions_data
                    ELSE [sessions_data EXCEPT !.accounts = Append(@, Account(session_name))]
         IN  /\ nclients' = IF raises \in {"start", "none"} THEN nclients + 2
                            ELSE nclients + 1
             /\ running' = CASE raises = "start_temp" -> running
                             [] raises \in {"get_me", "stop_temp"} -> running \cup {temp}
                             [] raises = "start" -> running
                             [] OTHER -> running \cup {client}
             /\ IF raises = "none"
                THEN /\ sessions_data' = doc
                     /\ sessions_file' = IF tracked THEN sessions_file
                                         ELSE save_sessions(doc)
                     /\ saves' = IF tracked THEN saves ELSE 1
                     /\ max_unsaved' = IF tracked THEN max_unsaved ELSE 1
                     /\ clients' = Append(clients, client)
                     /\ ret' = <<client>>
                ELSE /\ ret' = <<>>
                     /\ UNCHANGED << sessions_data, sessions_file, clients, max_unsaved,
                                     saves >>
    /\ pc' = IF pc = "add_first" THEN targets_step(sessions_data) ELSE "ask_account"
    /\ UNCHANGED << fs_vars, idx, cycle_vars, adds, stop_called, load_vars,
                    session_files, typed >>

(***************************************************************************)
(* TargetRegistry.                                                         *)
(***************************************************************************)
\* the clean-up with lstrip('@') for [1:]: every leading @ goes
RECURSIVE clean_target_lstrip(_)
clean_target_lstrip(target) ==
    IF startswith(target, <<"@">>) THEN clean_target_lstrip(Drop(target, 2))
    ELSE IF contains(target, TMe) THEN split_last(target, TMe)
    ELSE target

\* the clean-up of the recipient the operator typed
clean_target(target) ==
    IF startswith(target, <<"@">>) THEN Drop(target, 2)
    ELSE IF contains(target, TMe) THEN split_last(target, TMe)
    ELSE target

\* input("Do you want to add another target? (y/N): ")
ask_target ==
    /\ pc = "ask_target"
    /\ \/ /\ Len(sessions_data.targets) < MaxTargets
          /\ pc' = "add_target"
          /\ UNCHANGED << idx, cycle_vars >>
       \/ \* setup returns and run calls scheduled_message_sender
          /\ pc' = "cycle"
          /\ idx' = 1
          /\ tix' = 1
          /\ calls' = <<>>
          /\ failed' = 0
    /\ UNCHANGED << sessions_file, saves, typed, fs_vars, sessions_data, clients, nclients, running,
                    adds, ret, stop_called, load_vars, session_files, max_unsaved >>

\* the append that leaves out a target the list has already
append_unless_present(list, target) ==
    IF \E i \in 1..Len(list) : list[i] = target THEN list ELSE Append(list, target)

\* self.sessions_data['targets'].append({...})
append_target(list, target) == Append(list, target)

\* add_target, for a recipient of the set inputs typed at the prompt
add_target_from(inputs) ==
    /\ pc \in {"first_target", "add_target"}
    /\ \E target \in inputs, message \in Messages :
         LET doc == [sessions_data EXCEPT
                       !.targets = append_target(@, Target(clean_target(target), message))]
         IN  /\ sessions_data' = doc
             /\ sessions_file' = save_sessions(doc)
             /\ saves' = 1
             /\ typed' = target
             /\ max_unsaved' = 1
    /\ pc' = "ask_target"
    /\ UNCHANGED << fs_vars, clients, nclients, running, idx, cycle_vars, adds, ret,
                    stop_called, load_vars, session_files >>

add_target == add_target_from(RawTargets)

\* every text of at most three pieces, and the two forms of one recipient
Pieces == { <<>>, <<"@">>, S_a, TMe, <<"t", ".">> }
S_alice == <<"a", "l", "i", "c", "e">>
AtAlice == <<"@">> \o S_alice
LinkAlice == <<"h", "t", "t", "p", "s", ":", "/", "/">> \o TMe \o S_alice
TypedTargets ==
    { p \o q \o r : p \in Pieces, q \in Pieces, r \in Pieces } \cup { S_alice, AtAlice, LinkAlice }

\* add_target for any of these texts
add_target_typed == add_target_from(TypedTargets)

\* setup has come to the targets with no account and no target, and the
\* operator adds targets
InitTargets ==
    /\ sessions_file = [kind |-> "absent", doc |-> EmptyDocument]
    /\ cwd_files = {}
    /\ dir_files = {}
    /\ sessions_data = EmptyDocument
    /\ clients = <<>>
    /\ pc = "first_target"
    /\ nclients = 1
    /\ running = {}
    /\ idx = 1
    /\ tix = 1
    /\ calls = <<>>
    /\ failed = 0
    /\ adds = 0
    /\ ret = <<>>
    /\ stop_called = {}
    /\ loop_accounts = <<>>
    /\ started = {}
    /\ removed = {}
    /\ session_files = <<>>
    /\ max_unsaved = 0
    /\ saves = 0
    /\ typed = <<>>

NextTargets ==
    \/ add_target_typed
    \/ ask_target

SpecTargets == InitTargets /\ [][NextTargets]_vars

(***************************************************************************)
(* BroadcastScheduler.                                                     *)
(***************************************************************************)
\* the two loops nested the other way round: targets outside, clients inside
next_pair_target_major(i, t) ==
    IF i < Len(clients) THEN <<i + 1, t>> ELSE <<1, t + 1>>

\* the iterators of the two nested for loops after the pass for (i, t)
next_pair(i, t) ==
    IF t < Len(sessions_data.targets) THEN <<i, t + 1>> ELSE <<i + 1, 1>>

\* a send that raises ends the cycle
after_send_uncaught(i, t, raised) ==
    IF raised THEN <<Len(clients) + 1, 1>>
    ELSE IF t < Len(sessions_data.targets) THEN <<i, t + 1>> ELSE <<i + 1, 1>>

\* where the loops go on after a send that returned or raised: send_message
\* catches the exception, so both go on with the next pair
after_send(i, t, raised) == next_pair(i, t)

\* the loops have a pair left to send
pair_left == idx <= Len(clients) /\ tix <= Len(sessions_data.targets)

\* await self.send_message(client, target['recipient'], target['message'])
send_call ==
    /\ pc = "cycle"
    /\ pair_left
    /\ calls' = Append(calls, [client |-> clients[idx],
                               recipient |-> sessions_data.targets[tix].recipient,
                               message |-> sessions_data.targets[tix].message])
    /\ pc' = "send"
    /\ UNCHANGED << sessions_file, saves, typed, fs_vars, sessions_data, clients, nclients, running,
                    idx, tix, failed, adds, ret, stop_called, load_vars,
                    session_files, max_unsaved >>

\* client.send_message returns, or raises and send_message catches it
send_return ==
    /\ pc = "send"
    /\ \E raised \in BOOLEAN :
         /\ failed' = IF raised THEN failed + 1 ELSE failed
         /\ idx' = after_send(idx, tix, raised)[1]
         /\ tix' = after_send(idx, tix, raised)[2]
    /\ pc' = "cycle"
    /\ UNCHANGED << sessions_file, saves, typed, fs_vars, sessions_data, clients, nclients, running,
                    calls, adds, ret, stop_called, load_vars, session_files,
                    max_unsaved >>

\* the sleep that does not wait for the loops to be done
cycle_end_early ==
    /\ pc = "cycle"
    /\ pc' = "sleep"
    /\ UNCHANGED << sessions_file, saves, typed, fs_vars, sessions_data, clients, nclients, running,
                    idx, cycle_vars, adds, ret, stop_called, load_vars, session_files,
                    max_unsaved >>

\* the loop that stops when a cycle had a failed send
cycle_end_unless_failed ==
    /\ pc = "cycle"
    /\ ~pair_left
    /\ pc' = IF failed > 0 THEN "exit" ELSE "sleep"
    /\ UNCHANGED << sessions_file, saves, typed, fs_vars, sessions_data, clients, nclients, running,
                    idx, cycle_vars, adds, ret, stop_called, load_vars, session_files,
                    max_unsaved >>

\* both loops are done: next_time is printed and asyncio.sleep begins
cycle_end ==
    /\ pc = "cycle"
    /\ ~pair_left
    /\ pc' = "sleep"
    /\ UNCHANGED << sessions_file, saves, typed, fs_vars, sessions_data, clients, nclients, running,
                    idx, cycle_vars, adds, ret, stop_called, load_vars, session_files,
                    max_unsaved >>

\* asyncio.sleep returns and while True goes round
wake ==
    /\ pc = "sleep"
    /\ pc' = "cycle"
    /\ idx' = 1
    /\ tix' = 1
    /\ calls' = <<>>
    /\ failed' = 0
    /\ UNCHANGED << sessions_file, saves, typed, fs_vars, sessions_data, clients, nclients, running,
                    adds, ret, stop_called, load_vars, session_files, max_unsaved >>

(***************************************************************************)
(* run: the interrupt and the finally block.                               *)
(***************************************************************************)
\* where run() can be when the operator interrupts it
Interruptible ==
    { "detect", "load", "add_first", "ask_account", "add_account", "first_target",
      "ask_target", "add_target", "cycle", "send", "sleep" }

\* the frames of setup and of scheduled_message_sender are unwound, and their
\* loops with them; the finally block starts its own
interrupt ==
    /\ pc \in Interruptible
    /\ pc' = "cleanup"
    /\ idx' = 1
    /\ tix' = 1
    /\ calls' = <<>>
    /\ failed' = 0
    /\ UNCHANGED << sessions_file, saves, typed, fs_vars, sessions_data, clients, nclients, running,
                    adds, ret, stop_called, load_vars, session_files, max_unsaved >>

\* where the finally block goes after client.stop() returned or raised: nothing
\* catches the exception, which leaves the loop and run()
after_stop(i, raised) == IF raised THEN "error" ELSE "cleanup"

\* one pass of "for client in self.clients: await client.stop()"
cleanup_stop ==
    /\ pc = "cleanup"
    /\ idx <= Len(clients)
    /\ stop_called' = stop_called \cup {clients[idx]}
    /\ \E raised \in BOOLEAN :
         /\ running' = IF raised THEN running ELSE running \ {clients[idx]}
         /\ pc' = after_stop(idx, raised)
    /\ idx' = next_index(idx)
    /\ UNCHANGED << sessions_file, saves, typed, fs_vars, sessions_data, clients, nclients,
                    cycle_vars, adds, ret, load_vars, session_files, max_unsaved >>

cleanup_done ==
    /\ pc = "cleanup"
    /\ idx > Len(clients)
    /\ pc' = "exit"
    /\ UNCHANGED << sessions_file, saves, typed, fs_vars, sessions_data, clients, nclients, running,
                    idx, cycle_vars, adds, ret, stop_called, load_vars, session_files,
                    max_unsaved >>

Next ==
    \/ detect_existing_sessions
    \/ load_account
    \/ load_done
    \/ ask_account
    \/ add_new_account
    \/ ask_target
    \/ add_target
    \/ send_call
    \/ send_return
    \/ cycle_end
    \/ wake
    \/ interrupt
    \/ cleanup_stop
    \/ cleanup_done

Spec == Init /\ [][Next]_vars

\* the program starts with no config file and an empty sessions directory:
\* its accounts are the session files the scan finds in the current directory
\* and the ones the operator adds
InitNoConfig == Init /\ sessions_file.kind = "absent" /\ dir_files = {}

\* a run the operator does not interrupt
NextUninterrupted ==
    \/ detect_existing_sessions
    \/ load_account
    \/ load_done
    \/ ask_account
    \/ add_new_account
    \/ ask_target
    \/ add_target
    \/ send_call
    \/ send_return
    \/ cycle_end
    \/ wake

\* the awaits of scheduled_message_sender come back: client.send_message
\* returns or raises, asyncio.sleep returns after its three hours, and the
\* event loop goes on with the coroutine between them
Fairness ==
    /\ WF_vars(send_call)
    /\ WF_vars(send_return)
    /\ WF_vars(cycle_end)
    /\ WF_vars(wake)

SpecUninterrupted == InitNoConfig /\ [][NextUninterrupted]_vars /\ Fairness

(***************************************************************************)
(* Properties.                                                             *)
(***************************************************************************)
targets == sessions_data.targets
accounts == sessions_data.accounts
n_pairs == Len(clients) * Len(targets)
Broadcasting == pc \in {"cycle", "send", "sleep"}
LoadingOver == pc = "add_first" \/ (pc = "ask_account" /\ adds = 0)
live_names == { clients[i].session_name : i \in 1..Len(clients) }
distinct_names(list) ==
    \A i, j \in 1..Len(list) : list[i].session_name = list[j].session_name => i = j

\* the (client, target) pairs in account-major order
pairs_in_order ==
    [k \in 1..n_pairs |->
        [client |-> clients[((k - 1) \div Len(targets)) + 1],
         recipient |-> targets[((k - 1) % Len(targets)) + 1].recipient,
         message |-> targets[((k - 1) % Len(targets)) + 1].message]]

\* C1: the send calls of a cycle are the (client, target) pairs in account-major
\* order, each once: while the cycle runs the calls issued are an initial part of
\* that enumeration, a call is issued only when every earlier one has returned
\* or raised, and when the sleep begins all |C| x |T| of them have been issued.
C1_AccountMajorOrder ==
    /\ Broadcasting =>
         /\ Len(calls) <= n_pairs
         /\ calls = SubSeq(pairs_in_order, 1, Len(calls))
    /\ pc = "cycle" => Len(calls) = (idx - 1) * Len(targets) + (tix - 1)
    /\ pc = "send" => Len(calls) = (idx - 1) * Len(targets) + tix
    /\ pc = "sleep" => Len(calls) = n_pairs

\* a whole cycle of two clients and two different targets, one send of which raised
C1_Witness ==
    /\ pc = "sleep"
    /\ Len(clients) >= 2
    /\ Len(targets) = 2
    /\ targets[1] # targets[2]
    /\ Len(calls) = 4
    /\ failed = 1

\* C2: a send that raises ends neither the cycle nor the loop: whatever calls
\* have raised, the loops stop only when every pair has been attempted, and the
\* sleep is reached with every pair attempted.
C2_FailureIsolation ==
    /\ failed > 0 => Broadcasting
    /\ pc = "cycle" => (pair_left <=> Len(calls) < n_pairs)
    /\ pc = "sleep" => /\ Len(calls) = n_pairs
                       /\ failed <= n_pairs

\* the sleep is reached after a cycle in which every send raised
C2_Witness ==
    /\ pc = "sleep"
    /\ Len(calls) >= 4
    /\ failed = Len(calls)

\* C3: when the loading loop is over, every account of the persisted list has a
\* live client, and no account removed for a failed authentication has one.
C3_LoadedMatchesPersisted ==
    LoadingOver =>
        /\ session_names(sessions_file.doc.accounts) \subseteq live_names
        /\ removed \cap live_names = {}

\* C4: the loading loop calls start() for every account it found in the list,
\* temp_session apart, whichever of them failed, and what is left in the list,
\* and in the file, is what it found less the accounts that failed.
C4_EveryAccountAttempted ==
    LoadingOver =>
        /\ started = session_names(loop_accounts) \ {temp_session}
        /\ accounts = SelectSeq(loop_accounts, LAMBDA a : a.session_name \notin removed)
        /\ sessions_file.doc.accounts = accounts

\* C5: no operation puts temp_session into the persisted accounts list.
C5_TempSessionNeverPersisted ==
    [][ temp_session \notin session_names(sessions_file.doc.accounts)
          => temp_session \notin session_names(sessions_file'.doc.accounts) ]_vars

\* C6: the session names of the accounts list, in memory and in the file, are
\* pairwise distinct.
C6_SessionNamesDistinct ==
    /\ distinct_names(accounts)
    /\ distinct_names(sessions_file.doc.accounts)

\* the scan appended two accounts, the loading loop removed one, and an
\* interactive add appended another
C6_Witness ==
    /\ Len(session_files) = 2
    /\ removed # {}
    /\ ret # <<>>
    /\ ret[1].session_name \notin session_names(loop_accounts)
    /\ ret[1].session_name \in session_names(accounts)

\* C7: no two clients of the live-client list have the same session name.
C7_OneClientPerSession ==
    \A i, j \in 1..Len(clients) :
        clients[i].session_name = clients[j].session_name => i = j

\* C8: the broadcast loop runs with at least one client and at least one target.
C8_RunningHasClientAndTarget ==
    Broadcasting => Len(clients) >= 1 /\ Len(targets) >= 1

\* C9: when run() is left after an interrupt, the cleanup pass has called stop()
\* on every client of the live-client list.
C9_CleanupStopsEveryClient ==
    pc \in {"exit", "error"} => \A i \in 1..Len(clients) : clients[i] \in stop_called

\* C10: the file holds the in-memory document after every operation, and no
\* operation has more than one change of the document waiting for its save.
C10_SavedAfterEachMutation ==
    /\ load_sessions(sessions_file) = sessions_data
    /\ max_unsaved <= 1

\* C10, as amended: the file holds the in-memory document after every operation,
\* and only the session scan, which saves once after its loops, has more than
\* one change waiting: all the accounts it appended.
C10_SavedAfterEachOperation ==
    /\ load_sessions(sessions_file) = sessions_data
    /\ max_unsaved <= 1 \/ max_unsaved = Len(session_files)

\* the scan appended two accounts before its one save, and a target was added since
C10_Witness ==
    /\ Len(session_files) = 2
    /\ max_unsaved = 1
    /\ pc = "ask_target"
    /\ Len(sessions_file.doc.targets) = 2

\* C11: a second session scan over unchanged files appends no account, returns
\* no identifier and calls save_sessions not once, also with a session file
\* that both walks reach; the names stay distinct and the file is as it was.
C11_SecondScanIsIdle ==
    pc = "rescanned" =>
        /\ accounts = loop_accounts
        /\ session_files = <<>>
        /\ saves = 0
        /\ max_unsaved = 0
        /\ distinct_names(accounts)
        /\ load_sessions(sessions_file) = sessions_data

\* two scans are done of directories where a.session is met by both walks, and
\* the first scan has tracked a and b
C11_Witness ==
    /\ pc = "rescanned"
    /\ session_file(S_a) \in cwd_files \cap dir_files
    /\ session_file(S_b) \in dir_files
    /\ session_names(accounts) = {S_a, S_b}

\* no session file to discover and no account in the config
ZeroStart ==
    /\ dir_files = {}
    /\ cwd_files \subseteq {session_file(temp_session)}
    /\ IF pc = "detect" THEN accounts = <<>> ELSE loop_accounts = <<>>

\* C12: started with no session file to discover and no account in the config,
\* setup never prompts for another account, calls add_new_account from the one
\* place that does not prompt, goes on to the targets when that call returns,
\* and has made the call (one or two Client objects constructed) before the
\* broadcast loop starts.
C12_OneAddWithoutPrompt ==
    /\ [](ZeroStart =>
            /\ pc \notin {"ask_account", "add_account"}
            /\ adds = 0
            /\ pc \in {"detect", "load", "add_first", "load_error"} => nclients = 0
            /\ pc \in {"first_target", "ask_target", "add_target"} \/ Broadcasting
                 => nclients \in {1, 2})
    /\ [][ZeroStart /\ pc = "add_first"
            => pc' \in {"first_target", "ask_target", "cleanup"}]_vars

\* the broadcast loop has started after such a start, the one add having failed
C12_Witness ==
    /\ ZeroStart
    /\ Broadcasting
    /\ nclients = 1
    /\ clients = <<>>

\* C13: with sessions.json missing, load_sessions returns the empty document
\* and the program goes on; it raises, and the program stops before run(),
\* exactly for a file that cannot be read or parsed.
C13_MissingFileOnlyRecovered ==
    /\ sessions_file.kind = "absent" => pc # "load_error" /\ sessions_data = EmptyDocument
    /\ pc = "load_error" <=> sessions_file.kind \in {"empty", "unreadable"}

\* started without sessions.json and with nothing to discover: the scan is over
\* and the document is the empty one
C13_Witness ==
    /\ sessions_file.kind = "absent"
    /\ pc = "load"
    /\ sessions_data = EmptyDocument

\* C14: with an empty sessions.json, load_sessions returns the empty document
\* and raises nothing.
C14_EmptyFileLoads ==
    sessions_file.kind = "empty" => pc # "load_error" /\ sessions_data = EmptyDocument

\* C14, as amended: with an empty sessions.json, load_sessions raises and the
\* program stops in __init__, with no client made and nothing written.
C14_EmptyFileRaises ==
    sessions_file.kind = "empty" =>
        /\ pc = "load_error"
        /\ clients = <<>>
        /\ nclients = 0
        /\ saves = 0

\* the program has stopped on an empty sessions.json
C14_Witness ==
    /\ sessions_file.kind = "empty"
    /\ pc = "load_error"

\* where 't.me/' occurs in a text
link_places(raw) ==
    { i \in 1..Len(raw) : /\ i + Len(TMe) <= Len(raw) + 1
                          /\ SubSeq(raw, i, i + Len(TMe) - 1) = TMe }
last_place(raw) == CHOOSE i \in link_places(raw) : \A j \in link_places(raw) : j <= i

\* the recipient as C15 words it
normal_form(raw) ==
    IF raw # <<>> /\ raw[1] = "@" THEN [i \in 1..(Len(raw) - 1) |-> raw[i + 1]]
    ELSE IF link_places(raw) # {}
         THEN [i \in 1..((Len(raw) + 1) - (last_place(raw) + Len(TMe))) |->
                   raw[(last_place(raw) + Len(TMe) - 1) + i]]
    ELSE raw

\* C15: the recipient add_target stores is the text typed less its one leading
\* '@', or else the text after the last 't.me/' in it, or else the text itself;
\* "@alice" and "https://t.me/alice" are both stored as "alice".
C15_RecipientNormalized ==
    [][targets' # targets =>
        /\ Len(targets') = Len(targets) + 1
        /\ targets'[Len(targets')].recipient = normal_form(typed')
        /\ typed' \in {AtAlice, LinkAlice} => targets'[Len(targets')].recipient = S_alice
        /\ sessions_file'.doc.targets = targets']_vars

\* "@alice" was typed, then "https://t.me/alice", and both are stored as "alice"
C15_Witness ==
    /\ Len(targets) = 2
    /\ typed = LinkAlice
    /\ targets[1].recipient = S_alice
    /\ targets[2].recipient = S_alice
    /\ saves = 1

\* C15, its edges: "@@a" was stored as "@a", and "t.me/at.me/" as ""
C15_WitnessEdge ==
    /\ Len(targets) = 2
    /\ targets[1].recipient = <<"@">> \o S_a
    /\ typed = TMe \o S_a \o TMe
    /\ targets[2].recipient = <<>>

\* the list before is the front of the list after
is_front(before, after) ==
    /\ Len(before) <= Len(after)
    /\ \A i \in 1..Len(before) : after[i] = before[i]

\* C16: no step of the program removes, edits or reorders a target; the list
\* changes in add_target only, which puts exactly one entry at its end, an
\* entry equal to one of the list included; the saved list grows the same way.
C16_TargetsAppendOnly ==
    [][/\ targets' # targets =>
            /\ pc \in {"first_target", "add_target"}
            /\ pc' = "ask_target"
            /\ Len(targets') = Len(targets) + 1
       /\ pc \in {"first_target", "add_target"} /\ pc' = "ask_target" =>
            /\ Len(targets') = Len(targets) + 1
            /\ targets'[Len(targets')].recipient = clean_target(typed')
       /\ is_front(targets, targets')
       /\ is_front(sessions_file.doc.targets, sessions_file'.doc.targets)]_vars

\* add_target has put a second (a, m) after the first, and a broadcast cycle
\* has sent to both
C16_Witness ==
    /\ Len(targets) = 2
    /\ targets[1] = targets[2]
    /\ sessions_file.doc.targets = targets
    /\ pc = "sleep"
    /\ Len(calls) >= 2

\* a cycle begins: the two for loops are at their first pair
CycleStart == pc = "cycle" /\ idx = 1 /\ tix = 1 /\ calls = <<>> /\ failed = 0

\* C17: with no interrupt, the broadcast loop once entered is never left, and
\* every cycle comes to its sleep and every sleep to the start of another
\* cycle, a cycle in which every send failed included.
C17_BroadcastNeverEnds ==
    /\ [](Broadcasting => [](Broadcasting))
    /\ Broadcasting ~> (pc = "sleep")
    /\ (pc = "sleep") ~> CycleStart
    /\ (pc = "sleep" /\ failed = n_pairs) ~> CycleStart

\* a cycle of four sends that all failed is at its sleep
C17_Witness ==
    /\ pc = "sleep"
    /\ n_pairs = 4
    /\ Len(calls) = n_pairs
    /\ failed = n_pairs

\* the calls of the cycle cover every pair of a client and a target, once
every_pair_attempted ==
    /\ Len(calls) = n_pairs
    /\ \A i \in 1..Len(clients), t \in 1..Len(targets) :
         \E k \in 1..Len(calls) :
            /\ calls[k].client = clients[i]
            /\ calls[k].recipient = targets[t].recipient
            /\ calls[k].message = targets[t].message

\* C18: the sleep begins from the end of the loops only, with every pair of the
\* cycle attempted; asleep, the loop sends nothing, and the one step it takes
\* is to the start of the next cycle; a cycle's calls are dropped at that step
\* only (or by the interrupt); and from the last target prompt the first cycle
\* starts with no sleep before it.
C18_OneSleepBetweenCycles ==
    /\ [](pc = "sleep" => every_pair_attempted)
    /\ [][/\ pc' = "sleep" /\ pc # "sleep" => pc = "cycle" /\ ~pair_left /\ calls' = calls
          /\ pc = "sleep" => \/ CycleStart'
                             \/ pc' = "cleanup"
                             \/ pc' = "sleep" /\ calls' = calls
          /\ pc = "cycle" /\ ~pair_left => pc' \in {"cycle", "sleep", "cleanup"} /\ ~CycleStart'
          /\ Len(calls') > Len(calls) => pc = "cycle" /\ pc' = "send" /\ Len(calls') = Len(calls) + 1
          /\ Len(calls') < Len(calls) => (pc = "sleep" /\ CycleStart') \/ pc' = "cleanup"
          /\ pc = "ask_target" /\ pc' \notin {"ask_target", "add_target", "cleanup"} => CycleStart'
         ]_vars

\* a cycle of four sends, one of them failed, is at its sleep
C18_Witness ==
    /\ pc = "sleep"
    /\ n_pairs = 4
    /\ every_pair_attempted
    /\ failed = 1

\* add_new_account created one client only (the try block was left at the
\* start of the temporary client, at get_me or at its stop), or created both
\* and started none (the start of the permanent client raised)
AddFailedStep ==
    /\ pc \in {"add_first", "add_account"}
    /\ \/ nclients' = nclients + 1
       \/ nclients' = nclients + 2 /\ running' = running

\* C19: an add_new_account that fails at the start of the temporary client, at
\* get_me, at the stop or at the start of the permanent client returns None to
\* setup, which goes on, and leaves the accounts, the config file and the
\* list of clients as they were; the add that passes all four returns the
\* client it has put last in the list.
C19_FailedAddChangesNothing ==
    [][/\ AddFailedStep =>
            /\ ret' = <<>>
            /\ pc' = IF pc = "add_first" THEN targets_step(sessions_data) ELSE "ask_account"
            /\ sessions_data' = sessions_data
            /\ sessions_file' = sessions_file
            /\ clients' = clients
       /\ pc \in {"add_first", "add_account"} /\ nclients' # nclients /\ ~AddFailedStep =>
            /\ ret' = <<clients'[Len(clients')]>>
            /\ Len(clients') = Len(clients) + 1]_vars

\* the operator asked for one more account and the add failed: the two loaded
\* clients and the two saved accounts are what they were
C19_Witness ==
    /\ pc = "ask_account"
    /\ adds = 1
    /\ ret = <<>>
    /\ Len(clients) = 2
    /\ Len(accounts) = 2
    /\ sessions_file.doc.accounts = accounts
    /\ \A c \in running : \E i \in 1..Len(clients) : clients[i] = c

\* C20: a client that is started is in the list of clients, the temporary
\* client of an add whose get_me raised included.
C20_NoStrayClient ==
    \A c \in running : \E i \in 1..Len(clients) : clients[i] = c

====
